---- MODULE Spec2Model ----
(***************************************************************************)
(* Watch session protocol of harness-scratch-app (src/main.py).            *)
(*                                                                         *)
(* One session is one run of the coroutine watch_changes.  It is cut into  *)
(* steps at its awaits (accept, receive_json, send_json, sleep, close).    *)
(* The peer and the flag evaluation provider are the environment: the peer *)
(* may go away at any moment, the provider returns any value of the        *)
(* selected type or raises.                                                *)
(*                                                                         *)
(* Python values are tagged records [type, val]; dicts are sets of         *)
(* <<key, value>> pairs; a dict produced by .dict(exclude_none=True) is a  *)
(* record whose DOMAIN is the set of keys that are present.                *)
(***************************************************************************)
EXTENDS Integers, Sequences, FiniteSets, TLC

VARIABLES sess, peer, req

vars == <<sess, peer, req>>

(***************************************************************************)
(* Bounds.  The two timing constants of the source are 1800 and 30; the    *)
(* model runs the same loop on a scaled-down clock.                        *)
(***************************************************************************)
WEBSOCKET_MAX_CONNECTION_TIME == 4

WEBSOCKET_PING_SECONDS == 2

(***************************************************************************)
(* Python values                                                           *)
(***************************************************************************)
None == [type |-> "NoneType"]

PyBool(b) == [type |-> "bool", val |-> b]

PyInt(n) == [type |-> "int", val |-> n]

PyStr(s) == [type |-> "str", val |-> s]

PyDict(d) == [type |-> "dict", val |-> d]

\* bool(v): the truth value Python gives v in `x if v else y` and `v or y`
Truthy(v) ==
    CASE v.type = "NoneType" -> FALSE
      [] v.type = "bool" -> v.val
      [] v.type = "int" -> v.val # 0
      [] v.type = "str" -> v.val # ""
      [] v.type = "dict" -> v.val # {}
      [] OTHER -> TRUE

Num(v) == IF v.type = "bool" THEN (IF v.val THEN 1 ELSE 0) ELSE v.val

\* a != b of Python: bool is a subclass of int, every other pair of types
\* used here compares unequal across types
PyNe(a, b) ==
    IF a.type \in {"bool", "int"} /\ b.type \in {"bool", "int"}
    THEN Num(a) # Num(b)
    ELSE IF a.type = b.type THEN a.val # b.val ELSE TRUE

(***************************************************************************)
(* Handshake payloads: what receive_json can return or raise               *)
(***************************************************************************)
JAbsent == [j |-> "absent"]

JStr(s) == [j |-> "str", s |-> s]

JObj(d) == [j |-> "object", d |-> d]

JsonObject(n, v, a) ==
    [json |-> "object", name |-> n, variation_type |-> v, target_attributes |-> a]

Payloads ==
    { [json |-> "invalid"],
      [json |-> "array"],
      JsonObject(JAbsent, JAbsent, JAbsent),
      JsonObject(JAbsent, JStr("boolean"), JAbsent),
      JsonObject(JStr("n1"), JStr("number"), JObj({})),
      JsonObject(JStr(""), JStr("string"), JObj({<<"plan", "pro">>})),
      JsonObject(JAbsent, JStr("date"), JAbsent),
      JsonObject(JAbsent, JStr("boolean"), JStr("x")) }

VariationTypes == {"string", "boolean", "number"}

\* FlagRequest(**data): pydantic validation of the three fields
FlagRequest(data) ==
    IF data.json # "object" THEN [ok |-> FALSE, exc |-> "TypeError"]
    ELSE IF \/ data.name.j = "object"
            \/ data.variation_type.j = "object"
            \/ (data.variation_type.j = "str" /\ data.variation_type.s \notin VariationTypes)
            \/ data.target_attributes.j = "str"
    THEN [ok |-> FALSE, exc |-> "ValidationError"]
    ELSE [ok |-> TRUE,
          details |->
            [type |-> "FlagRequest",
             name |-> IF data.name.j = "absent" THEN None ELSE PyStr(data.name.s),
             variation_type |-> IF data.variation_type.j = "absent" THEN "string"
                                ELSE data.variation_type.s,
             target_attributes |-> IF data.target_attributes.j = "absent" THEN {}
                                   ELSE data.target_attributes.d]]

(***************************************************************************)
(* Target Resolver and Variation Resolver                                  *)
(***************************************************************************)
\* _build_target with `is not None` for the truth test of the name
_build_target_keeps_empty(target_id, details) ==
    IF details.type # "NoneType"
    THEN [type |-> "Target",
          identifier |-> target_id,
          name |-> IF details.name.type # "NoneType" THEN details.name.val ELSE target_id,
          attributes |-> details.target_attributes]
    ELSE [type |-> "Target", identifier |-> target_id, name |-> target_id,
          attributes |-> {}]

\* without details the attributes are left to Target's own default, the empty
\* mapping
_build_target(target_id, details) ==
    IF details.type # "NoneType"
    THEN [type |-> "Target",
          identifier |-> target_id,
          name |-> IF Truthy(details.name) THEN details.name.val ELSE target_id,
          attributes |-> details.target_attributes]
    ELSE [type |-> "Target", identifier |-> target_id, name |-> target_id,
          attributes |-> {}]

\* result_info with the defaults of boolean and number exchanged
result_info_mixed(vt) ==
    CASE vt = "string" -> [type |-> "partial", op |-> "string_variation", default |-> PyStr("")]
      [] vt = "boolean" -> [type |-> "partial", op |-> "bool_variation", default |-> PyInt(0)]
      [] vt = "number" -> [type |-> "partial", op |-> "number_variation", default |-> PyBool(FALSE)]

result_info(vt) ==
    CASE vt = "string" -> [type |-> "partial", op |-> "string_variation", default |-> PyStr("")]
      [] vt = "boolean" -> [type |-> "partial", op |-> "bool_variation", default |-> PyBool(FALSE)]
      [] vt = "number" -> [type |-> "partial", op |-> "number_variation", default |-> PyInt(0)]

_get_variation_callable(details) ==
    IF details.type # "NoneType"
    THEN IF details.variation_type \in VariationTypes
         THEN result_info(details.variation_type)
         ELSE result_info("string")
    ELSE result_info("string")

\* the values the provider can return from the selected operation; the
\* default of the operation is one of them
Variations(variation) ==
    CASE variation.op = "string_variation" -> {PyStr(""), PyStr("on")}
      [] variation.op = "bool_variation" -> {PyBool(FALSE), PyBool(TRUE)}
      [] variation.op = "number_variation" -> {PyInt(0), PyInt(1)}

ProviderFault == [type |-> "raise", val |-> "ProviderFault"]

\* outcomes of variation_callable(flag_id, target)
Evaluations(variation) == Variations(variation) \cup {ProviderFault}

(***************************************************************************)
(* Session state                                                           *)
(***************************************************************************)
FlagIds == {"f1"}

TargetIds == {"t1", "t2"}

\* outcomes of uuid.uuid4()
ConnIds == {"u1", "u2"}

Closed == {"closed_normal", "closed_timeout", "closed_error"}

\* the locals of watch_changes before its first statement, plus the payload
\* it received (data), the log of the websocket calls it has made (calls) and
\* the outcomes of its evaluations (evals: evals[1] is the initial one,
\* evals[t + 1] the one of tick t)
NewSession(flag_id, target_id) ==
    [pc |-> "connecting",
     flag_id |-> flag_id,
     target_id |-> target_id,
     data |-> [json |-> "none"],
     details |-> None,
     target |-> None,
     variation_callable |-> None,
     target_attributes |-> None,
     connection_id |-> None,
     result |-> None,
     next_result |-> None,
     second_counter |-> 0,
     exc |-> "none",
     calls |-> << >>,
     evals |-> << >>]

\* an exception leaves watch_changes
Escape(s, e) == [s EXCEPT !.pc = "closed_error", !.exc = e]

\* what a send on the websocket does: it raises WebSocketDisconnect once the
\* peer is gone, and may fail for another reason while the peer is there
SendResults(p) ==
    IF p.state = "gone" THEN {"WebSocketDisconnect"} ELSE {"ok", "SendFault"}

\* a logged call; previous_value is the argument of that name handed to
\* send_update (None for the other calls)
Call(s, call, body, outcome) ==
    [call |-> call, body |-> body, tick |-> s.second_counter, outcome |-> outcome,
     previous_value |-> None]

FlagState(s, flag_value) ==
    [flag_id |-> s.flag_id,
     flag_value |-> flag_value,
     target_id |-> s.target_id,
     target_attributes |-> s.target_attributes.val]

\* FlagWatchMessage with a uuid generated per change message
FlagWatchMessage_newid(s, message, current_value, previous_value) ==
    LET id == IF previous_value.type = "NoneType" THEN s.connection_id.val
              ELSE CHOOSE u \in ConnIds : u # s.connection_id.val
    IN IF Truthy(previous_value)
       THEN [message |-> message,
             connection_id |-> id,
             state |-> FlagState(s, current_value),
             previous_state |-> FlagState(s, previous_value)]
       ELSE [message |-> message,
             connection_id |-> id,
             state |-> FlagState(s, current_value)]

\* FlagWatchMessage with the two values swapped
FlagWatchMessage_swapped(s, message, current_value, previous_value) ==
    IF Truthy(current_value)
    THEN [message |-> message,
          connection_id |-> s.connection_id.val,
          state |-> FlagState(s, previous_value),
          previous_state |-> FlagState(s, current_value)]
    ELSE [message |-> message,
          connection_id |-> s.connection_id.val,
          state |-> FlagState(s, previous_value)]

\* FlagWatchMessage(...).dict(exclude_none=True) as built by send_update
FlagWatchMessage(s, message, current_value, previous_value) ==
    IF Truthy(previous_value)
    THEN [message |-> message,
          connection_id |-> s.connection_id.val,
          state |-> FlagState(s, current_value),
          previous_state |-> FlagState(s, previous_value)]
    ELSE [message |-> message,
          connection_id |-> s.connection_id.val,
          state |-> FlagState(s, current_value)]

\* send_update: the call of websocket.send_json with the envelope
send_update(s, message, current_value, previous_value, outcome) ==
    [s EXCEPT !.calls = Append(@,
        [Call(s, "send_json",
              FlagWatchMessage(s, message, current_value, previous_value), outcome)
            EXCEPT !.previous_value = previous_value])]

\* LoopHead with `<=` for `<`
LoopHead_inclusive(s) ==
    IF s.second_counter <= WEBSOCKET_MAX_CONNECTION_TIME
    THEN [s EXCEPT !.pc = "sleeping"]
    ELSE [s EXCEPT !.pc = "closing"]

\* while second_counter < WEBSOCKET_MAX_CONNECTION_TIME: ... else: ...
LoopHead(s) ==
    IF s.second_counter < WEBSOCKET_MAX_CONNECTION_TIME
    THEN [s EXCEPT !.pc = "sleeping"]
    ELSE [s EXCEPT !.pc = "closing"]

\* PingCheck as an `elif` of the change test: no marker on a tick that changed
PingCheck_unless_changed(s) ==
    IF s.second_counter % WEBSOCKET_PING_SECONDS = 0 /\ s.pc # "send_change"
    THEN [s EXCEPT !.pc = "send_ping"]
    ELSE LoopHead(s)

\* if second_counter % WEBSOCKET_PING_SECONDS == 0: ...
\* PingCheck without the keep-alive send
PingCheck_never(s) == LoopHead(s)

PingCheck(s) ==
    IF s.second_counter % WEBSOCKET_PING_SECONDS = 0
    THEN [s EXCEPT !.pc = "send_ping"]
    ELSE LoopHead(s)

\* RaiseInLoop without the `except WebSocketDisconnect` clause
RaiseInLoop_uncaught(s, e) == Escape(s, e)

\* RaiseInLoop with `except Exception` for `except WebSocketDisconnect`
RaiseInLoop_swallow(s, e) == [s EXCEPT !.pc = "closed_normal"]

\* RaiseInLoop with the close in a `finally` clause instead of the `else`
RaiseInLoop_finally(s, e) ==
    IF e = "WebSocketDisconnect"
    THEN [s EXCEPT !.pc = "closing"]
    ELSE Escape(s, e)

\* an exception raised inside the try block of the loop
\* RaiseInLoop with the disconnect of a change send caught around that send
\* alone, so that the iteration goes on to its ping test
RaiseInLoop_continue(s, e) ==
    IF e = "WebSocketDisconnect"
    THEN IF s.pc = "send_change"
         THEN PingCheck(s)
         ELSE [s EXCEPT !.pc = "closed_normal"]
    ELSE Escape(s, e)

RaiseInLoop(s, e) ==
    IF e = "WebSocketDisconnect"
    THEN [s EXCEPT !.pc = "closed_normal"]
    ELSE Escape(s, e)

(***************************************************************************)
(* Steps of watch_changes, one per await                                   *)
(***************************************************************************)
\* await websocket.accept()
AcceptStep(s) == [s EXCEPT !.pc = "handshake"]

\* ReceiveStep that goes on without details when the payload does not validate
ReceiveStep_lenient(s, p, data, uuid, ev) ==
    IF p.state = "gone" THEN Escape(s, "WebSocketDisconnect")
    ELSE IF data.json = "invalid" THEN Escape([s EXCEPT !.data = data], "JSONDecodeError")
    ELSE LET parsed == FlagRequest(data)
             details == IF parsed.ok THEN parsed.details ELSE None
             variation == _get_variation_callable(details)
             s1 == [s EXCEPT !.data = data,
                             !.details = details,
                             !.target = _build_target(s.target_id, details),
                             !.variation_callable = variation,
                             !.target_attributes =
                                 IF details.type # "NoneType"
                                 THEN PyDict(details.target_attributes) ELSE PyDict({}),
                             !.connection_id = PyStr(uuid)]
             s2 == [s1 EXCEPT !.evals = <<ev>>]
         IN IF ev \notin Variations(variation) THEN Escape(s2, ev.val)
            ELSE [s2 EXCEPT !.result = ev, !.pc = "start"]

\* data = await websocket.receive_json() ... result = variation_callable(...)
ReceiveStep(s, p, data, uuid, ev) ==
    IF p.state = "gone" THEN Escape(s, "WebSocketDisconnect")
    ELSE IF data.json = "invalid" THEN Escape([s EXCEPT !.data = data], "JSONDecodeError")
    ELSE LET parsed == FlagRequest(data) IN
         IF ~parsed.ok THEN Escape([s EXCEPT !.data = data], parsed.exc)
         ELSE LET details == parsed.details
                  variation == _get_variation_callable(details)
                  s1 == [s EXCEPT !.data = data,
                                  !.details = details,
                                  !.target = _build_target(s.target_id, details),
                                  !.variation_callable = variation,
                                  !.target_attributes =
                                      IF details.type # "NoneType"
                                      THEN PyDict(details.target_attributes) ELSE None,
                                  !.connection_id = PyStr(uuid)]
                  s2 == [s1 EXCEPT !.evals = <<ev>>]
              IN IF ev \notin Variations(variation) THEN Escape(s2, ev.val)
                 ELSE [s2 EXCEPT !.result = ev, !.pc = "start"]

\* StartStep announcing the default of the operation instead of the result
StartStep_default(s, outcome) ==
    LET s1 == send_update(s, "Initiated connection to watch flag",
                          s.variation_callable.default, None, outcome)
    IN IF outcome = "ok" THEN LoopHead([s1 EXCEPT !.second_counter = 0])
       ELSE Escape(s1, outcome)

\* await send_update("Initiated connection to watch flag", current_value=result)
\* second_counter = 0
StartStep(s, outcome) ==
    LET s1 == send_update(s, "Initiated connection to watch flag", s.result, None, outcome)
    IN IF outcome = "ok" THEN LoopHead([s1 EXCEPT !.second_counter = 0])
       ELSE Escape(s1, outcome)

\* TickStep with an idle timeout: a change of the value restarts the counter
TickStep_reset(s, ev) ==
    LET s1 == [s EXCEPT !.second_counter = @ + 1, !.evals = Append(@, ev)] IN
    IF ev \notin Variations(s.variation_callable) THEN RaiseInLoop(s1, ev.val)
    ELSE LET s2 == [s1 EXCEPT !.next_result = ev] IN
         IF PyNe(ev, s.result) THEN [s2 EXCEPT !.pc = "send_change", !.second_counter = 0]
         ELSE PingCheck(s2)

\* TickStep with the change test as an `elif` of the ping test: a change that
\* falls on a ping tick is not reported at that tick
TickStep_lossy(s, ev) ==
    LET s1 == [s EXCEPT !.second_counter = @ + 1, !.evals = Append(@, ev)] IN
    IF ev \notin Variations(s.variation_callable) THEN RaiseInLoop(s1, ev.val)
    ELSE LET s2 == [s1 EXCEPT !.next_result = ev] IN
         IF PyNe(ev, s.result) /\ s1.second_counter % WEBSOCKET_PING_SECONDS # 0
         THEN [s2 EXCEPT !.pc = "send_change"]
         ELSE PingCheck(s2)

\* await asyncio.sleep(1) ... if next_result != result:
TickStep(s, ev) ==
    LET s1 == [s EXCEPT !.second_counter = @ + 1, !.evals = Append(@, ev)] IN
    IF ev \notin Variations(s.variation_callable) THEN RaiseInLoop(s1, ev.val)
    ELSE LET s2 == [s1 EXCEPT !.next_result = ev] IN
         IF PyNe(ev, s.result) THEN [s2 EXCEPT !.pc = "send_change"]
         ELSE PingCheck(s2)

\* ChangeStep without `result = next_result`
ChangeStep_stale(s, outcome) ==
    LET s1 == send_update(s, "Flag changed", s.next_result, s.result, outcome) IN
    IF outcome = "ok" THEN PingCheck(s1) ELSE RaiseInLoop(s1, outcome)

\* ChangeStep with `result = next_result` moved before the send
ChangeStep_early(s, outcome) ==
    LET s0 == [s EXCEPT !.result = s.next_result]
        s1 == send_update(s0, "Flag changed", s0.next_result, s0.result, outcome)
    IN IF outcome = "ok" THEN PingCheck(s1) ELSE RaiseInLoop(s1, outcome)

\* await send_update("Flag changed", ...); result = next_result
ChangeStep(s, outcome) ==
    LET s1 == send_update(s, "Flag changed", s.next_result, s.result, outcome) IN
    IF outcome = "ok" THEN PingCheck([s1 EXCEPT !.result = s.next_result])
    ELSE RaiseInLoop(s1, outcome)

\* await websocket.send_json({"type": "ping"})
PingStep(s, outcome) ==
    LET s1 == [s EXCEPT !.calls =
                 Append(@, Call(s, "send_json", [type |-> "ping"], outcome))] IN
    IF outcome = "ok" THEN LoopHead(s1) ELSE RaiseInLoop(s1, outcome)

\* else: await websocket.close(reason="timed out")
CloseStep(s, outcome) ==
    LET s1 == [s EXCEPT !.calls =
                 Append(@, Call(s, "close", [reason |-> "timed out"], outcome))] IN
    IF outcome = "ok" THEN [s1 EXCEPT !.pc = "closed_timeout"] ELSE Escape(s1, outcome)

(***************************************************************************)
(* Actions                                                                 *)
(***************************************************************************)
Sessions == DOMAIN sess

InLoopPcs == {"sleeping", "send_change", "send_ping"}

\* Step with `result` a module-level variable that all sessions assign
Step_shared(i, s) ==
    /\ sess' = [k \in Sessions |->
                  IF k = i THEN s
                  ELSE IF sess[k].pc \in InLoopPcs /\ s.pc \in InLoopPcs
                       THEN [sess[k] EXCEPT !.result = s.result]
                       ELSE sess[k]]
    /\ UNCHANGED <<peer, req>>

\* one step of session i: its locals change, nothing else does
Step(i, s) == /\ sess' = [sess EXCEPT ![i] = s]
              /\ UNCHANGED <<peer, req>>

Accept(i) ==
    /\ sess[i].pc = "connecting"
    /\ Step(i, AcceptStep(sess[i]))

\* the receive of session i with the payload drawn from payloads and the uuid
\* from uuids
ReceiveFrom(i, payloads, uuids) ==
    /\ sess[i].pc = "handshake"
    /\ \E data \in payloads, uuid \in uuids :
         LET parsed == FlagRequest(data) IN
         \E ev \in (IF parsed.ok THEN Evaluations(_get_variation_callable(parsed.details))
                    ELSE {ProviderFault}) :
            Step(i, ReceiveStep(sess[i], peer[i], data, uuid, ev))

Receive(i) == ReceiveFrom(i, Payloads, ConnIds)

SendStart(i) ==
    /\ sess[i].pc = "start"
    /\ \E outcome \in SendResults(peer[i]) : Step(i, StartStep(sess[i], outcome))

Tick(i) ==
    /\ sess[i].pc = "sleeping"
    /\ \E ev \in Evaluations(sess[i].variation_callable) : Step(i, TickStep(sess[i], ev))

SendChange(i) ==
    /\ sess[i].pc = "send_change"
    /\ \E outcome \in SendResults(peer[i]) : Step(i, ChangeStep(sess[i], outcome))

SendPing(i) ==
    /\ sess[i].pc = "send_ping"
    /\ \E outcome \in SendResults(peer[i]) : Step(i, PingStep(sess[i], outcome))

Close(i) ==
    /\ sess[i].pc = "closing"
    /\ \E outcome \in SendResults(peer[i]) : Step(i, CloseStep(sess[i], outcome))

\* the peer goes away; gone_at, gone_pc and gone_calls remember the tick, the
\* position of the session and the number of calls it had made by then
PeerDisconnect(i) ==
    /\ sess[i].pc \notin Closed \cup {"connecting"}
    /\ peer[i].state = "connected"
    /\ peer' = [peer EXCEPT ![i] = [state |-> "gone",
                                    gone_at |-> sess[i].second_counter,
                                    gone_pc |-> sess[i].pc,
                                    gone_calls |-> Len(sess[i].calls)]]
    /\ UNCHANGED <<sess, req>>

NewPeer == [state |-> "connected", gone_at |-> -1, gone_pc |-> "none", gone_calls |-> -1]

\* no resolver call outside a session
NoRequest == [pc |-> "off"]

Init ==
    /\ \E f \in FlagIds, t \in TargetIds : sess = [i \in {1} |-> NewSession(f, t)]
    /\ peer = [i \in {1} |-> NewPeer]
    /\ req = NoRequest

Next ==
    \/ \E i \in Sessions : Accept(i)
    \/ \E i \in Sessions : Receive(i)
    \/ \E i \in Sessions : SendStart(i)
    \/ \E i \in Sessions : Tick(i)
    \/ \E i \in Sessions : SendChange(i)
    \/ \E i \in Sessions : SendPing(i)
    \/ \E i \in Sessions : Close(i)
    \/ \E i \in Sessions : PeerDisconnect(i)

Spec == Init /\ [][Next]_vars

\* the event loop resumes a coroutine whose await has completed; the peer is
\* under no obligation to disconnect
SessionStep ==
    \E i \in Sessions :
        \/ Accept(i) \/ Receive(i) \/ SendStart(i) \/ Tick(i)
        \/ SendChange(i) \/ SendPing(i) \/ Close(i)

LiveSpec == Spec /\ WF_vars(SessionStep)

(***************************************************************************)
(* Two sessions running concurrently on the event loop.  Each session      *)
(* watches its own target and receives one of MultiPayloads; everything    *)
(* after the handshake is as in Spec.                                      *)
(***************************************************************************)
MultiPayloads ==
    { [json |-> "array"],
      JsonObject(JAbsent, JStr("boolean"), JAbsent) }

MultiTarget(i) == IF i = 1 THEN "t1" ELSE "t2"

MultiUuid(i) == IF i = 1 THEN "u1" ELSE "u2"

InitMulti ==
    /\ \E f \in FlagIds : sess = [i \in {1, 2} |-> NewSession(f, MultiTarget(i))]
    /\ peer = [i \in {1, 2} |-> NewPeer]
    /\ req = NoRequest

NextMulti ==
    \/ \E i \in Sessions : Accept(i)
    \/ \E i \in Sessions : ReceiveFrom(i, MultiPayloads, {MultiUuid(i)})
    \/ \E i \in Sessions : SendStart(i)
    \/ \E i \in Sessions : Tick(i)
    \/ \E i \in Sessions : SendChange(i)
    \/ \E i \in Sessions : SendPing(i)
    \/ \E i \in Sessions : Close(i)
    \/ \E i \in Sessions : PeerDisconnect(i)

SpecMulti == InitMulti /\ [][NextMulti]_vars

TypeOK ==
    \A i \in Sessions :
        /\ sess[i].pc \in {"connecting", "handshake", "start", "sleeping", "send_change",
                           "send_ping", "closing"} \cup Closed
        /\ sess[i].second_counter \in 0..WEBSOCKET_MAX_CONNECTION_TIME
        /\ peer[i].state \in {"connected", "gone"}

(***************************************************************************)
(* The two resolvers on their own: a request (absent, or any valid         *)
(* FlagRequest) is resolved as the handlers do, and the closure is then    *)
(* called up to MaxCalls times; provider_calls logs the operation of the   *)
(* client each call reaches and the default it passes.                     *)
(***************************************************************************)
MaxCalls == 2

Names == {None, PyStr(""), PyStr("n1")}

Attributes == { {}, {<<"plan", "pro">>} }

RequestDetails ==
    {None} \cup [type : {"FlagRequest"}, name : Names, variation_type : VariationTypes,
                 target_attributes : Attributes]

NewRequest(flag_id, target_id, details) ==
    [pc |-> "new",
     flag_id |-> flag_id,
     target_id |-> target_id,
     details |-> details,
     target |-> None,
     variation_callable |-> None,
     provider_calls |-> << >>]

\* target = _build_target(target_id, details)
\* variation_callable = _get_variation_callable(details, client)
ResolveStep(r) ==
    [r EXCEPT !.pc = "resolved",
              !.target = _build_target(r.target_id, r.details),
              !.variation_callable = _get_variation_callable(r.details)]

\* variation_callable(flag_id, target): the partial calls its operation with
\* default=default
InvokeStep(r, value) ==
    [r EXCEPT !.provider_calls =
        Append(@, [op |-> r.variation_callable.op,
                   default |-> r.variation_callable.default,
                   flag_id |-> r.flag_id,
                   target |-> r.target,
                   result |-> value])]

Resolve ==
    /\ req.pc = "new"
    /\ req' = ResolveStep(req)
    /\ UNCHANGED <<sess, peer>>

Invoke ==
    /\ req.pc = "resolved"
    /\ Len(req.provider_calls) < MaxCalls
    /\ \E value \in Variations(req.variation_callable) : req' = InvokeStep(req, value)
    /\ UNCHANGED <<sess, peer>>

InitResolver ==
    /\ sess = << >>
    /\ peer = << >>
    /\ \E f \in FlagIds, t \in TargetIds, d \in RequestDetails : req = NewRequest(f, t, d)

NextResolver == Resolve \/ Invoke

SpecResolver == InitResolver /\ [][NextResolver]_vars

(***************************************************************************)
(* Reading the logs                                                        *)
(***************************************************************************)
StartMessage == "Initiated connection to watch flag"

IsEnvelope(c) == c.call = "send_json" /\ "message" \in DOMAIN c.body

IsStart(c) == IsEnvelope(c) /\ c.body.message = StartMessage

IsChange(c) == IsEnvelope(c) /\ c.body.message = "Flag changed"

IsPing(c) == c.call = "send_json" /\ "type" \in DOMAIN c.body

IsClose(c) == c.call = "close"

IsValue(ev) == ev.type # "raise"

\* the calls of kind K made at tick t
CallsAt(s, t, K(_)) == {k \in DOMAIN s.calls : s.calls[k].tick = t /\ K(s.calls[k])}

\* the evaluation of tick t returned a value that differs from the one before
Differs(s, t) == IsValue(s.evals[t + 1]) /\ s.evals[t + 1] # s.evals[t]

\* the change notification of tick t is decided but its send is still to come
ChangePending(s, t) == s.second_counter = t /\ s.pc = "send_change"

(***************************************************************************)
(* C1: at every tick of the loop, send_json is called with a "Flag         *)
(* changed" envelope, once, if and only if the value evaluated at that     *)
(* tick differs from the value evaluated just before; equal consecutive    *)
(* values produce no notification.                                         *)
(***************************************************************************)
ChangeIffValueDiffers ==
    \A i \in Sessions :
        LET s == sess[i] IN
        \A t \in 1..(Len(s.evals) - 1) :
            /\ Cardinality(CallsAt(s, t, IsChange)) + (IF ChangePending(s, t) THEN 1 ELSE 0)
                 = IF Differs(s, t) THEN 1 ELSE 0

\* a change was notified and a later tick evaluated the same value again
ChangeThenEqualSeen ==
    \E i \in Sessions :
        LET s == sess[i] IN
        \E t1, t2 \in 1..(Len(s.evals) - 1) :
            /\ t1 < t2
            /\ \E k \in CallsAt(s, t1, IsChange) : s.calls[k].outcome = "ok"
            /\ s.evals[t2 + 1] = s.evals[t2]
            /\ s.pc = "closing"

(***************************************************************************)
(* C2: an envelope carries previous_state if and only if it is a change    *)
(* event, whatever the previous value is (false, 0 and "" included).       *)
(***************************************************************************)
PreviousStateIffChange ==
    \A i \in Sessions :
        \A k \in DOMAIN sess[i].calls :
            LET c == sess[i].calls[k] IN
            IsEnvelope(c) => ("previous_state" \in DOMAIN c.body <=> IsChange(c))

(***************************************************************************)
(* C3 as stated: a session whose peer disconnects at tick k < MAX while    *)
(* the loop runs terminates at tick k: no later iteration (no counter      *)
(* increment, no evaluation), no further message, no error.                *)
(***************************************************************************)
InLoop == {"sleeping", "send_change", "send_ping"}

\* the peer of session i went away at a tick k < MAX while the loop was running
GoneInLoop(i) ==
    /\ peer[i].state = "gone"
    /\ peer[i].gone_pc \in InLoop
    /\ peer[i].gone_at < WEBSOCKET_MAX_CONNECTION_TIME

Untroubled(i) == peer[i].state = "connected" /\ sess[i].exc = "none"

TimeoutSafety ==
    \A i \in Sessions :
        LET s == sess[i]
            n == Len(s.calls)
        IN Untroubled(i) =>
            /\ s.second_counter <= WEBSOCKET_MAX_CONNECTION_TIME
            /\ Len(s.evals) <= WEBSOCKET_MAX_CONNECTION_TIME + 1
            /\ s.pc \notin {"closed_normal", "closed_error"}
            /\ s.pc \in {"closing", "closed_timeout"} =>
                 /\ s.second_counter = WEBSOCKET_MAX_CONNECTION_TIME
                 /\ Len(s.evals) = WEBSOCKET_MAX_CONNECTION_TIME + 1
            /\ s.pc = "closed_timeout" <=> \E k \in DOMAIN s.calls : IsClose(s.calls[k])
            /\ s.pc = "closed_timeout" =>
                 /\ IsClose(s.calls[n])
                 /\ s.calls[n].body.reason = "timed out"
                 /\ s.calls[n].outcome = "ok"
                 /\ \A k \in 1..(n - 1) : ~IsClose(s.calls[k])

TimesOutAtMax ==
    /\ []TimeoutSafety
    /\ <>(\A i \in Sessions : ~Untroubled(i) \/ sess[i].pc = "closed_timeout")

\* a session that timed out although its value changed on the way
TimedOutAfterChanges ==
    \E i \in Sessions :
        /\ Untroubled(i)
        /\ sess[i].pc = "closed_timeout"
        /\ \E k \in DOMAIN sess[i].calls : IsChange(sess[i].calls[k])

(***************************************************************************)
(* C5: at every tick t >= 1 the session calls send_json with the           *)
(* keep-alive marker exactly once if t is a multiple of the ping interval  *)
(* and the iteration got as far as the ping test, and never otherwise,     *)
(* whether or not the tick also sent a change; a session that times out    *)
(* has sent MAX / PING markers.                                            *)
(***************************************************************************)
\* iteration t of session s has passed its ping test and its ping
PingDone(s, t) ==
    \/ t < s.second_counter
    \/ s.pc \in {"sleeping", "closing", "closed_timeout"}

Pings(s) == {k \in DOMAIN s.calls : IsPing(s.calls[k])}

KeepAliveEveryPingSeconds ==
    \A i \in Sessions :
        LET s == sess[i] IN
        /\ CallsAt(s, 0, IsPing) = {}
        /\ \A t \in 1..s.second_counter :
             LET n == Cardinality(CallsAt(s, t, IsPing)) IN
             /\ n <= 1
             /\ n = 1 => t % WEBSOCKET_PING_SECONDS = 0
             /\ PingDone(s, t) => (n = 1 <=> t % WEBSOCKET_PING_SECONDS = 0)
        /\ s.pc = "closed_timeout" =>
             Cardinality(Pings(s)) = WEBSOCKET_MAX_CONNECTION_TIME \div WEBSOCKET_PING_SECONDS

\* a tick that sent both a change notification and a marker, in a session
\* that went on to time out
ChangeAndPingOnOneTick ==
    \E i \in Sessions :
        /\ sess[i].pc = "closed_timeout"
        /\ \E t \in 1..sess[i].second_counter :
             /\ CallsAt(sess[i], t, IsChange) # {}
             /\ CallsAt(sess[i], t, IsPing) # {}

(***************************************************************************)
(* C6: the calls of a session are in chronological order: the start        *)
(* message is the first and only the first, ticks never decrease along the *)
(* log, and the change notifications are, in order, exactly the ticks at   *)
(* which the evaluated value differed from the one before, each carrying   *)
(* the value evaluated at its tick.                                        *)
(***************************************************************************)
Changes(s) == {k \in DOMAIN s.calls : IsChange(s.calls[k])}

ChangeTicks(s) ==
    {t \in 1..(Len(s.evals) - 1) : Differs(s, t) /\ ~ChangePending(s, t)}

MessagesInOrder ==
    \A i \in Sessions :
        LET s == sess[i]
            c == s.calls
        IN /\ Len(c) >= 1 => IsStart(c[1]) /\ c[1].tick = 0
           /\ \A k \in 2..Len(c) : ~IsStart(c[k]) /\ c[k - 1].tick <= c[k].tick
           /\ Cardinality(Changes(s)) = Cardinality(ChangeTicks(s))
           /\ \A k \in Changes(s) :
                /\ c[k].tick \in ChangeTicks(s)
                /\ c[k].body.state.flag_value = s.evals[c[k].tick + 1]
                /\ Cardinality({j \in Changes(s) : j < k})
                     = Cardinality({t \in ChangeTicks(s) : t < c[k].tick})

\* two changes on consecutive ticks with a marker between them
ChangesAroundPing ==
    \E i \in Sessions :
        LET c == sess[i].calls IN
        \E k \in 1..(Len(c) - 2) :
            /\ IsChange(c[k]) /\ IsPing(c[k + 1]) /\ IsChange(c[k + 2])
            /\ c[k + 2].outcome = "ok"

(***************************************************************************)
(* C7: the first call of a session is the send of the start envelope; its  *)
(* state.flag_value is the result of the one evaluation made before it,    *)
(* with the operation resolved from the handshake, for the flag and target *)
(* of the session, and it has no previous_state.                           *)
(***************************************************************************)
StartIsInitialEvaluation ==
    \A i \in Sessions :
        LET s == sess[i] IN
        /\ s.pc = "start" => s.calls = << >> /\ Len(s.evals) = 1
        /\ Len(s.calls) >= 1 =>
             LET m == s.calls[1] IN
             /\ IsStart(m)
             /\ m.body.state.flag_value = s.evals[1]
             /\ m.body.state.flag_value
                  \in Variations(_get_variation_callable(FlagRequest(s.data).details))
             /\ m.body.state.flag_id = s.flag_id
             /\ m.body.state.target_id = s.target.identifier
             /\ "previous_state" \notin DOMAIN m.body

\* a start message announcing a value that is not the default of its type
StartAnnouncesNonDefault ==
    \E i \in Sessions :
        /\ Len(sess[i].calls) >= 1
        /\ sess[i].calls[1].outcome = "ok"
        /\ sess[i].evals[1] = PyBool(TRUE)

(***************************************************************************)
(* C8: none of the expected terminations (handshake error, peer            *)
(* disconnect, timeout) leaves the session handler as an exception, at     *)
(* whichever step it occurs.                                               *)
(***************************************************************************)
ExpectedExceptions == {"WebSocketDisconnect", "JSONDecodeError", "TypeError", "ValidationError"}

ExpectedTerminationsHandled ==
    \A i \in Sessions : sess[i].exc \notin ExpectedExceptions

\* the same for the peer disconnect alone
DisconnectHandled ==
    \A i \in Sessions : sess[i].exc # "WebSocketDisconnect"

(***************************************************************************)
(* C9: when an evaluation or a send inside the loop fails with a fault     *)
(* other than the disconnect, the fault leaves the session (closed_error,  *)
(* not closed_normal), the session does nothing more and never makes the   *)
(* "timed out" close call; also when the fault falls on tick MAX.          *)
(***************************************************************************)
EvalFaultInLoop(s) ==
    Len(s.evals) >= 2 /\ ~IsValue(s.evals[Len(s.evals)])

SendFaultInLoop(s) ==
    /\ Len(s.calls) >= 2
    /\ s.calls[Len(s.calls)].outcome = "SendFault"
    /\ ~IsClose(s.calls[Len(s.calls)])

FaultInLoop(s) == EvalFaultInLoop(s) \/ SendFaultInLoop(s)

FaultSafety ==
    \A i \in Sessions :
        LET s == sess[i] IN
        /\ EvalFaultInLoop(s) =>
             /\ s.pc = "closed_error" /\ s.exc = "ProviderFault"
             /\ \A k \in DOMAIN s.calls : s.calls[k].tick < s.second_counter
        /\ SendFaultInLoop(s) =>
             /\ s.pc = "closed_error" /\ s.exc = "SendFault"
             /\ s.calls[Len(s.calls)].tick = s.second_counter
        /\ FaultInLoop(s) => \A k \in DOMAIN s.calls : ~IsClose(s.calls[k])
        /\ \A k \in 1..(Len(s.calls) - 1) : s.calls[k].outcome = "ok"

FaultPropagates ==
    /\ []FaultSafety
    /\ [][\A i \in Sessions : FaultInLoop(sess[i]) => sess'[i] = sess[i]]_vars

\* an evaluation fault on the last tick
FaultOnLastTick ==
    \E i \in Sessions :
        /\ EvalFaultInLoop(sess[i])
        /\ sess[i].second_counter = WEBSOCKET_MAX_CONNECTION_TIME
        /\ sess[i].pc = "closed_error"

(***************************************************************************)
(* C10: a handshake whose variation_type is absent or is not one of        *)
(* string, boolean, number raises no error: the string operation with      *)
(* default "" is selected and the session goes on to its start message.    *)
(***************************************************************************)
\* an otherwise valid handshake object with no or an unrecognized variation_type
UnrecognizedType(data) ==
    /\ data.json = "object"
    /\ data.name.j # "object"
    /\ data.target_attributes.j # "str"
    /\ \/ data.variation_type.j = "absent"
       \/ data.variation_type.j = "str" /\ data.variation_type.s \notin VariationTypes

UnrecognizedTypeFallsBack ==
    \A i \in Sessions :
        UnrecognizedType(sess[i].data) =>
            /\ sess[i].exc \notin {"ValidationError", "TypeError"}
            /\ sess[i].variation_callable = result_info("string")
(***************************************************************************)
(* C11: when the handshake message is malformed (or never arrives) the     *)
(* session never becomes active: it makes no evaluation, generates no      *)
(* connection id, makes no websocket call, and ends with the error.        *)
(***************************************************************************)
\* session s is past its receive and got no valid FlagRequest out of it
HandshakeFailed(s) ==
    /\ s.pc \notin {"connecting", "handshake"}
    /\ ~FlagRequest(s.data).ok

MalformedHandshakeNeverActive ==
    \A i \in Sessions :
        LET s == sess[i] IN
        HandshakeFailed(s) =>
            /\ s.pc = "closed_error"
            /\ s.exc \in ExpectedExceptions
            /\ s.evals = << >>
            /\ s.connection_id = None
            /\ s.result = None
            /\ s.calls = << >>
            /\ s.second_counter = 0

\* a handshake object that is rejected for its variation_type alone
RejectedForItsType ==
    \E i \in Sessions :
        /\ HandshakeFailed(sess[i])
        /\ sess[i].data.json = "object"
        /\ sess[i].exc = "ValidationError"
        /\ sess[i].data.target_attributes.j = "absent"
(***************************************************************************)
(* C12: with two sessions interleaved, a step of one session (its          *)
(* termination by fault, disconnect or timeout included) changes nothing   *)
(* of the other session: counter, last value, connection id, position and  *)
(* call log stay as they were; and what a session sends is made of its own *)
(* connection id, its own target and its own evaluation results only.      *)
(***************************************************************************)
OwnMessagesOnly(s) ==
    /\ \A k \in DOMAIN s.calls :
         IsEnvelope(s.calls[k]) =>
            /\ s.calls[k].body.connection_id = s.connection_id.val
            /\ s.calls[k].body.state.target_id = s.target_id
            /\ s.calls[k].body.state.flag_value = s.evals[s.calls[k].tick + 1]
    /\ Cardinality(Changes(s)) = Cardinality(ChangeTicks(s))
    /\ s.pc \in {"sleeping", "closing"} => s.result = s.evals[Len(s.evals)]

OthersUntouched ==
    \A i \in Sessions :
        (sess'[i] # sess[i] \/ peer'[i] # peer[i]) =>
            \A k \in Sessions \ {i} : sess'[k] = sess[k] /\ peer'[k] = peer[k]

SessionsIndependent ==
    /\ [](\A i \in Sessions : OwnMessagesOnly(sess[i]))
    /\ [][OthersUntouched]_vars

\* one session ended by an evaluation fault in its loop, the other one
\* reported a change and ran to its timeout
FaultBesideTimeout ==
    /\ Cardinality(Sessions) = 2
    /\ \E i, k \in Sessions :
         /\ i # k
         /\ EvalFaultInLoop(sess[i]) /\ sess[i].pc = "closed_error"
         /\ sess[k].pc = "closed_timeout" /\ Changes(sess[k]) # {}
(***************************************************************************)
(* C13 as stated: the connection id is carried by every message the        *)
(* session sends, keep-alive markers included.                             *)
(***************************************************************************)
EveryMessageCarriesConnectionId ==
    \A i \in Sessions :
        \A k \in DOMAIN sess[i].calls :
            LET c == sess[i].calls[k] IN
            c.call = "send_json" =>
                /\ "connection_id" \in DOMAIN c.body
                /\ c.body.connection_id = sess[i].connection_id.val

(***************************************************************************)
(* C13 amended: the connection id is generated once, by the step that      *)
(* receives a valid handshake, and never changes afterwards; every         *)
(* notification envelope (start and change messages) carries it; the       *)
(* keep-alive marker is {"type": "ping"} and carries no connection id.     *)
(***************************************************************************)
ConnectionIdInEnvelopes ==
    \A i \in Sessions :
        LET s == sess[i] IN
        /\ s.connection_id = None <=> (s.pc \in {"connecting", "handshake"} \/ HandshakeFailed(s))
        /\ \A k \in DOMAIN s.calls :
             LET c == s.calls[k] IN
             /\ IsEnvelope(c) =>
                  "connection_id" \in DOMAIN c.body /\ c.body.connection_id = s.connection_id.val
             /\ IsPing(c) => DOMAIN c.body = {"type"} /\ c.body.type = "ping"
             /\ c.call = "send_json" => IsEnvelope(c) \/ IsPing(c)

ConnectionIdKept ==
    \A i \in Sessions :
        sess'[i].connection_id # sess[i].connection_id =>
            /\ sess[i].connection_id = None
            /\ sess[i].pc = "handshake"
            /\ sess'[i].connection_id.val \in ConnIds

ConnectionIdStable ==
    /\ []ConnectionIdInEnvelopes
    /\ [][ConnectionIdKept]_vars

\* a session that has sent its start message, a change and a marker
StartChangeAndPingSent ==
    \E i \in Sessions :
        LET c == sess[i].calls IN
        /\ \E k \in DOMAIN c : IsChange(c[k]) /\ c[k].outcome = "ok"
        /\ \E k \in DOMAIN c : IsPing(c[k]) /\ c[k].outcome = "ok"
        /\ sess[i].pc = "sleeping"
(***************************************************************************)
(* C14: second_counter is 0 until the loop starts, stays within 0..MAX,    *)
(* counts the evaluations made in the loop, changes only by +1 and only    *)
(* when the session wakes from its sleep, never decreases; once it equals  *)
(* MAX the session never sleeps or evaluates again.                        *)
(***************************************************************************)
CounterInRange ==
    \A i \in Sessions :
        LET s == sess[i] IN
        /\ 0 <= s.second_counter /\ s.second_counter <= WEBSOCKET_MAX_CONNECTION_TIME
        /\ s.pc \in {"connecting", "handshake", "start"} => s.second_counter = 0
        /\ s.evals # << >> => s.second_counter = Len(s.evals) - 1
        /\ \A k \in DOMAIN s.calls : s.calls[k].tick <= s.second_counter
        /\ s.second_counter = WEBSOCKET_MAX_CONNECTION_TIME => s.pc # "sleeping"

CounterCountsUp ==
    \A i \in Sessions :
        LET s == sess[i]
            t == sess'[i]
        IN /\ t.second_counter = s.second_counter
                \/ /\ t.second_counter = s.second_counter + 1
                   /\ s.pc = "sleeping"
                   /\ Len(t.evals) = Len(s.evals) + 1
           /\ s.second_counter = WEBSOCKET_MAX_CONNECTION_TIME =>
                /\ t.evals = s.evals
                /\ t.pc # "sleeping"

CounterMonotoneAndBounded ==
    /\ []CounterInRange
    /\ [][CounterCountsUp]_vars

\* the counter has reached MAX and the last iteration is still sending
LastIterationSending ==
    \E i \in Sessions :
        /\ sess[i].second_counter = WEBSOCKET_MAX_CONNECTION_TIME
        /\ sess[i].pc = "send_change"
(***************************************************************************)
(* C15: the Variation Resolver gives string -> string operation with "",   *)
(* boolean -> boolean operation with false, number -> number operation     *)
(* with 0, an absent request -> string operation with ""; every call of    *)
(* the returned closure reaches that operation with that default.          *)
(***************************************************************************)
RequestedType(r) ==
    IF r.details = None THEN "absent" ELSE r.details.variation_type

ExpectedOperation(vt) ==
    IF vt = "boolean" THEN "bool_variation"
    ELSE IF vt = "number" THEN "number_variation"
    ELSE "string_variation"

ExpectedDefault(vt) ==
    IF vt = "boolean" THEN PyBool(FALSE)
    ELSE IF vt = "number" THEN PyInt(0)
    ELSE PyStr("")

VariationResolverMaps ==
    req.pc = "resolved" =>
        /\ req.variation_callable.op = ExpectedOperation(RequestedType(req))
        /\ req.variation_callable.default = ExpectedDefault(RequestedType(req))
        /\ \A k \in DOMAIN req.provider_calls :
             /\ req.provider_calls[k].op = ExpectedOperation(RequestedType(req))
             /\ req.provider_calls[k].default = ExpectedDefault(RequestedType(req))
             /\ req.provider_calls[k].flag_id = req.flag_id
             /\ req.provider_calls[k].target = req.target

\* a number closure called twice, with different results
NumberClosureCalledTwice ==
    /\ req.pc = "resolved"
    /\ RequestedType(req) = "number"
    /\ Len(req.provider_calls) >= 2
    /\ req.provider_calls[1].result # req.provider_calls[2].result

CloseCalls(s) == {k \in DOMAIN s.calls : IsClose(s.calls[k])}

\* no evaluation and no call before the close has raised
NothingRaised(s) ==
    /\ s.calls # << >>
    /\ \A k \in DOMAIN s.evals : IsValue(s.evals[k])
    /\ \A k \in DOMAIN s.calls : ~IsClose(s.calls[k]) => s.calls[k].outcome = "ok"

DisconnectObserved(s) ==
    s.calls # << >> /\ s.calls[Len(s.calls)].outcome = "WebSocketDisconnect"

TimeoutCloseSafety ==
    \A i \in Sessions :
        LET s == sess[i] IN
        /\ Cardinality(CloseCalls(s)) <= 1
        /\ \A k \in CloseCalls(s) :
             /\ k = Len(s.calls)
             /\ s.calls[k].body.reason = "timed out"
             /\ s.calls[k].tick = WEBSOCKET_MAX_CONNECTION_TIME
             /\ Len(s.evals) = WEBSOCKET_MAX_CONNECTION_TIME + 1
             /\ NothingRaised(s)
        /\ s.pc \in Closed =>
             (CloseCalls(s) # {} <=>
                (s.second_counter = WEBSOCKET_MAX_CONNECTION_TIME /\ NothingRaised(s)))
        /\ \A k \in DOMAIN s.calls :
             s.calls[k].outcome = "WebSocketDisconnect" => k = Len(s.calls)
        /\ DisconnectObserved(s) => s.pc \in Closed

TimeoutCloseOnlyAtMax ==
    /\ []TimeoutCloseSafety
    /\ [][\A i \in Sessions : DisconnectObserved(sess[i]) => sess'[i] = sess[i]]_vars

\* the marker of the last tick raised the disconnect: no close follows
DisconnectAtLastPing ==
    \E i \in Sessions :
        /\ sess[i].pc = "closed_normal"
        /\ sess[i].second_counter = WEBSOCKET_MAX_CONNECTION_TIME
        /\ IsPing(sess[i].calls[Len(sess[i].calls)])
(***************************************************************************)
(* C18: at every iteration boundary result is the value of the most recent *)
(* evaluation and the state.flag_value of the most recent envelope; the    *)
(* previous value handed to a change envelope is the flag_value of the     *)
(* envelope before it and differs from the new flag_value.                 *)
(***************************************************************************)
Envelopes(s) == {k \in DOMAIN s.calls : IsEnvelope(s.calls[k])}

\* the last envelope before call k (k itself excluded)
EnvelopeBefore(s, k) ==
    CHOOSE j \in Envelopes(s) : j < k /\ \A m \in Envelopes(s) : m < k => m <= j

AtBoundary(s) == s.pc \in {"sleeping", "closing"}

LastValueIsLastReported ==
    \A i \in Sessions :
        LET s == sess[i] IN
        /\ AtBoundary(s) =>
             /\ s.result = s.evals[Len(s.evals)]
             /\ s.result = s.calls[EnvelopeBefore(s, Len(s.calls) + 1)].body.state.flag_value
        /\ \A k \in Changes(s) :
             /\ s.calls[k].previous_value
                  = s.calls[EnvelopeBefore(s, k)].body.state.flag_value
             /\ s.calls[k].previous_value # s.calls[k].body.state.flag_value

\* a boundary reached after two changes
TwoChangesReported ==
    \E i \in Sessions :
        /\ AtBoundary(sess[i])
        /\ Cardinality(Changes(sess[i])) >= 2
        /\ sess[i].second_counter < WEBSOCKET_MAX_CONNECTION_TIME
(***************************************************************************)
(* C19: on a tick with both a change and a ping the change notification is *)
(* sent before the keep-alive marker; a change send that observes a        *)
(* disconnect is the last call of the session, so the marker of its tick   *)
(* is not sent; and when the final tick is a multiple of the ping interval *)
(* the call just before the "timed out" close is the marker of that tick.  *)
(***************************************************************************)
ChangeBeforePing ==
    \A i \in Sessions :
        LET s == sess[i] IN
        /\ \A c \in Changes(s) : \A p \in Pings(s) :
             s.calls[c].tick = s.calls[p].tick => c < p
        /\ \A c \in Changes(s) :
             s.calls[c].outcome = "WebSocketDisconnect" =>
                 /\ c = Len(s.calls)
                 /\ CallsAt(s, s.calls[c].tick, IsPing) = {}
                 /\ s.pc = "closed_normal"
        /\ \A k \in CloseCalls(s) :
             s.calls[k].tick % WEBSOCKET_PING_SECONDS = 0 =>
                 /\ k > 1
                 /\ IsPing(s.calls[k - 1])
                 /\ s.calls[k - 1].tick = s.calls[k].tick
                 /\ s.calls[k - 1].outcome = "ok"

\* a change notification and, right after it, the marker of the same tick
ChangeThenPingSent ==
    \E i \in Sessions :
        LET s == sess[i]
            n == Len(s.calls)
        IN /\ s.pc \in {"sleeping", "closing"}
           /\ n >= 2
           /\ IsChange(s.calls[n - 1])
           /\ IsPing(s.calls[n])
           /\ s.calls[n - 1].tick = s.calls[n].tick
(***************************************************************************)
(* C20: the departure of the peer changes nothing in the session, and a    *)
(* session ends as a normal close only at a send_json call that raises     *)
(* WebSocketDisconnect, never at the sleep or the evaluation.  So a        *)
(* session whose peer left at tick k goes on sleeping, counting and        *)
(* evaluating through the ticks that are neither a multiple of             *)
(* WEBSOCKET_PING_SECONDS nor a change of value, and at the first tick     *)
(* after k that is one of the two it makes the send that ends it as a      *)
(* normal close, without the "timed out" close.  (A session in which an    *)
(* evaluation raised has ended before, as C9 says; those are set aside.)   *)
(***************************************************************************)
SendingPcs == {"send_change", "send_ping"}

\* the first later tick that is a ping tick or a change is the last tick
EndsAtFirstSendAfter(i) ==
    LET s == sess[i]
        k == peer[i].gone_at
    IN /\ Len(s.evals) = s.second_counter + 1
       /\ peer[i].gone_pc \in SendingPcs => s.second_counter = k
       /\ \A t \in (k + 1)..s.second_counter :
            (t % WEBSOCKET_PING_SECONDS = 0 \/ Differs(s, t)) =>
                /\ t = s.second_counter
                /\ s.pc \in SendingPcs \cup {"closed_normal"}
       /\ s.pc # "closed_timeout"
       /\ s.pc = "closed_normal" =>
            /\ s.calls[Len(s.calls)].outcome = "WebSocketDisconnect"
            /\ s.calls[Len(s.calls)].tick = s.second_counter
            /\ CloseCalls(s) = {}

DisconnectSafety ==
    \A i \in Sessions :
        GoneInLoop(i) /\ sess[i].exc = "none" => EndsAtFirstSendAfter(i)

\* what one step may do about a disconnect
DisconnectStep ==
    \A i \in Sessions :
        /\ peer[i].state = "connected" /\ peer'[i].state = "gone" => sess' = sess
        /\ sess[i].pc # "closed_normal" /\ sess'[i].pc = "closed_normal" =>
             /\ sess[i].pc \in SendingPcs
             /\ peer[i].state = "gone"
             /\ Len(sess'[i].calls) = Len(sess[i].calls) + 1
             /\ sess'[i].second_counter = sess[i].second_counter
             /\ sess'[i].evals = sess[i].evals
        /\ (/\ peer[i].state = "gone"
            /\ sess[i].pc = "sleeping"
            /\ sess'[i] # sess[i]) =>
             /\ sess'[i].second_counter = sess[i].second_counter + 1
             /\ Len(sess'[i].evals) = Len(sess[i].evals) + 1
             /\ sess'[i].calls = sess[i].calls
             /\ sess'[i].pc # "closed_normal"

DisconnectSeenAtNextSend ==
    /\ []DisconnectSafety
    /\ [][DisconnectStep]_vars
    /\ (\E i \in Sessions : GoneInLoop(i))
         ~> (\A i \in Sessions :
                GoneInLoop(i) => sess[i].pc = "closed_normal" \/ sess[i].exc # "none")

\* the peer left during a sleep and the session went through a quiet tick
\* before the send of a change of value ended it
QuietTickThenEndedByChange ==
    \E i \in Sessions :
        LET s == sess[i]
            n == Len(s.calls)
        IN /\ GoneInLoop(i)
           /\ peer[i].gone_pc = "sleeping"
           /\ s.pc = "closed_normal"
           /\ s.second_counter >= peer[i].gone_at + 2
           /\ IsChange(s.calls[n])
====
